---- MODULE Spec2Model ----
(***************************************************************************)
(* Model of the incremental crawl-and-audit API of src/main.py.            *)
(*                                                                         *)
(* The two collections of the document store ("crawltask", "audittask")    *)
(* are sequences of documents in insertion order.  Every request handler   *)
(* is an action.  crawl_status, crawl_urls, start_audit and audit_list     *)
(* read a document, do network work and write back without any lock, so    *)
(* each is split at the point between its read and its write: the first    *)
(* half reads the store and performs the fetches, the second half writes.  *)
(* The model follows one crawl task and the audit tasks that refer to it.  *)
(* Two pollers issue requests; when overlap is FALSE the requests are      *)
(* those of one client, one after the other.                               *)
(***************************************************************************)
EXTENDS Integers, Sequences, FiniteSets, TLC

VARIABLES
    site,        \* the web site served to requests.get (fixed per behaviour)
    env,         \* "up": every fetch and store write succeeds; "flaky": each may fail
    overlap,     \* whether requests of the two pollers may overlap
    crawltask,   \* collection "crawltask": sequence of CrawlTask documents
    audittask,   \* collection "audittask": sequence of AuditTask documents
    pc,          \* per poller: the handler it is inside of, or "idle"
    local,       \* per poller: the handler's local variables
    discovered,  \* history: URLs in the order in which crawl steps first appended them
    lastCreated, \* history: what the last completed start_audit returned and saw
    response,    \* the last answer that was a failure (4xx) or an audit report
    checks,      \* the page handed to the SEO checks when they are run on their own
    scored       \* what the SEO checks returned for it, None before they ran

vars == <<site, env, overlap, crawltask, audittask, pc, local, discovered, lastCreated,
          response, checks, scored>>

----------------------------------------------------------------------------
(* Program constants                                                       *)

\* main.py:84,91,103  cap on the recorded URLs
MaxUrls == 100
\* main.py:91  pages fetched per crawl step
StepBudget == 2
\* main.py:135  URLs selected by start_audit
AuditUrls == 20
\* main.py:152  slice of the task list handled by one audit_list call
AuditBatch == 5
\* main.py:166  length the error message is cut to
ErrCut == 120
\* main.py:208  score before deductions
FullScore == 100
\* main.py:218  word count under which the copy is too short
MinWords == 200

(* Bounds of the model                                                     *)

\* number of links on the front page of the "big" site (more than MaxUrls)
BigLinks == 105
\* number of start_audit requests in one behaviour
MaxAuditStarts == 1
\* number of positions of the selection at which an AuditTask creation may fail
MaxCreateFail == 1

\* p1 is the client that owns the crawl task and uses every endpoint; p2 is a
\* second poller of the same task, which polls crawl/status and audit/list.
Pollers == {"p1", "p2"}
Owner == "p1"

----------------------------------------------------------------------------
(* Sequences and optional values                                           *)

Min(a, b) == IF a < b THEN a ELSE b
Max(a, b) == IF a > b THEN a ELSE b

Range(s) == {s[i] : i \in 1..Len(s)}
InSeq(x, s) == \E i \in 1..Len(s) : s[i] = x
NoDup(s) == Cardinality(Range(s)) = Len(s)
Take(s, n) == SubSeq(s, 1, Min(n, Len(s)))
Reverse(s) == [i \in 1..Len(s) |-> s[Len(s) + 1 - i]]

\* An Optional[T] field: {} is None, {v} holds v.
None == {}
Some(v) == {v}
The(o) == CHOOSE v \in o : TRUE

----------------------------------------------------------------------------
(* URLs.  A URL is what urlparse splits it into; a path is the number n of *)
(* the page "/n".  An href has "" for an absent scheme or netloc and       *)
(* NoPath for an absent path.                                              *)

NoPath == 0 - 1
UsesRelative == {"http", "https"}

Url(scheme, netloc, path) ==
    [scheme |-> scheme, netloc |-> netloc, path |-> path, fragment |-> ""]
Href(scheme, netloc, path, fragment) ==
    [scheme |-> scheme, netloc |-> netloc, path |-> path, fragment |-> fragment]
Rel(path) == Href("", "", path, "")

\* an href on which urljoin raises ValueError (an unclosed IPv6 bracket)
BadNetloc == "[bad"
Raises(link) == link.netloc = BadNetloc

\* urllib.parse.urljoin for a non-empty base and link
urljoin(base, link) ==
    LET scheme == IF link.scheme = "" THEN base.scheme ELSE link.scheme
    IN  IF scheme # base.scheme \/ scheme \notin UsesRelative
        THEN link
        ELSE IF link.netloc # ""
        THEN [link EXCEPT !.scheme = scheme]
        ELSE [scheme |-> scheme, netloc |-> base.netloc,
              path |-> IF link.path = NoPath THEN base.path ELSE link.path,
              fragment |-> link.fragment]

\* a mutant of normalize_url: the fragment is kept
normalize_url_fragment(base, link) ==
    IF Raises(link) THEN None
    ELSE LET parsed == urljoin(base, link)
         IN  IF parsed.scheme \in {"http", "https"}
             THEN Some(parsed)
             ELSE None

\* lines 34-43
normalize_url(base, link) ==
    IF Raises(link) THEN None
    ELSE LET parsed == urljoin(base, link)
         IN  IF parsed.scheme \in {"http", "https"}
             THEN Some([parsed EXCEPT !.fragment = ""])
             ELSE None

same_origin(a, b) == a.netloc = b.netloc

----------------------------------------------------------------------------
(* The web sites the crawler is pointed at.  Every site is served on       *)
(* a.com; its seed is https://a.com/0.  Links(s, n) is the sequence of     *)
(* href attributes of the <a> elements of page /n, in document order.      *)

Sites == {"single", "mixed", "deep", "flat", "big"}

Seed == Url("https", "a.com", 0)

Links(s, n) ==
    CASE s = "mixed" /\ n = 0 ->
            << Rel(1),                               \* /1
               Href("", "", 2, "top"),               \* /2#top
               Href("", "", 1, "top"),               \* /1#top, /1 again once stripped
               Href("mailto", "", 9, ""),            \* mailto:
               Href("javascript", "", 9, ""),        \* javascript:
               Href("https", "b.com", 1, ""),        \* another host
               Href("http", "a.com", 3, ""),         \* same host, other scheme
               Href("", "", NoPath, "top"),          \* #top on the seed page
               Href("https", BadNetloc, 1, "") >>    \* malformed
      [] s = "mixed" /\ n = 1 -> << Rel(4), Rel(0) >>
      [] s = "single" /\ n = 0 -> << Rel(1) >>
      [] s = "deep" /\ n = 0 -> << Rel(1), Rel(2) >>
      [] s = "deep" /\ n = 1 -> << Rel(2) >>
      [] s = "deep" /\ n = 2 -> << Rel(3) >>
      [] s = "flat" /\ n = 0 -> << Rel(1), Rel(2) >>
      [] s = "flat" /\ n = 1 -> << Rel(0), Rel(3) >>
      [] s = "flat" /\ n = 2 -> << Rel(1) >>
      [] s = "big" /\ n = 0 -> [i \in 1..BigLinks |-> Rel(i)]
      [] s = "big" /\ n = 1 -> << Rel(BigLinks + 1) >>
      [] OTHER -> << >>

\* what requests.get(url) answers with status 200: the hrefs of the page
Page(s, url) == IF url.netloc = "a.com" THEN Links(s, url.path) ELSE << >>

\* outcome of one requests.get inside a crawl step
FetchOutcomes == IF env = "up" THEN {"ok"} ELSE {"ok", "non200", "raise"}

----------------------------------------------------------------------------
(* crawl_status, lines 83-109: one crawl step as a function of the stored  *)
(* document and of the outcomes of the fetches it makes.                   *)

\* a mutant of Accepts: no cap
Accepts_nocap(seed, nu, new_urls) ==
    same_origin(seed, nu) /\ ~InSeq(nu, new_urls)

\* line 103
Accepts(seed, nu, new_urls) ==
    same_origin(seed, nu) /\ ~InSeq(nu, new_urls) /\ Len(new_urls) < MaxUrls

\* lines 100-105: the body of the loop over the <a href>, on one href;
\* acc holds new_urls and to_visit
ExtractOne(seed, current, href, acc) ==
    The({IF nu # None /\ Accepts(seed, The(nu), acc.new_urls)
         THEN [new_urls |-> Append(acc.new_urls, The(nu)),
               to_visit |-> Append(acc.to_visit, The(nu))]
         ELSE acc :
           nu \in {normalize_url(current, href)}})

\* line 99: the loop over hrefs[lo..hi] in document order.  The range is
\* halved so that the evaluation does not nest once per href, and the result
\* of the first half is bound as a value (the element of a one-element set)
\* before the second half starts from it.
RECURSIVE ExtractRange(_, _, _, _, _, _)
ExtractRange(seed, current, hrefs, lo, hi, acc) ==
    IF lo > hi THEN acc
    ELSE IF lo = hi THEN ExtractOne(seed, current, hrefs[lo], acc)
    ELSE LET mid == (lo + hi) \div 2
         IN  The({ExtractRange(seed, current, hrefs, mid + 1, hi, left) :
                    left \in {ExtractRange(seed, current, hrefs, lo, mid, acc)}})

\* lines 99-105: the loop over the <a href> of the page fetched from current
ExtractLinks(seed, current, hrefs, new_urls, to_visit) ==
    The({ExtractRange(seed, current, h, 1, Len(h), acc) :
           h \in {hrefs}, acc \in {[new_urls |-> new_urls, to_visit |-> to_visit]}})

\* what the loop of lines 91-108 returns: the list built, the URLs requested,
\* for each request the number of URLs recorded when it was made, the value
\* of steps and the length of to_visit when the loop ends
LoopResult(new_urls, steps, to_visit, log) ==
    [new_urls |-> new_urls,
     fetched |-> [k \in 1..Len(log) |-> log[k].url],
     recorded |-> [k \in 1..Len(log) |-> log[k].recorded],
     steps |-> steps,
     left |-> Len(to_visit)]

\* a mutant of CrawlLoop: the loop does not stop when 100 URLs are recorded
RECURSIVE CrawlLoop_nocap(_, _, _, _, _, _)
CrawlLoop_nocap(seed, to_visit, new_urls, steps, outcomes, log) ==
    IF to_visit = << >> \/ steps >= StepBudget
    THEN LoopResult(new_urls, steps, to_visit, log)
    ELSE LET current == Head(to_visit)
             rest == Tail(to_visit)
             entry == [url |-> current, recorded |-> Len(new_urls)]
         IN  IF outcomes[steps + 1] = "ok"
             THEN The({CrawlLoop_nocap(seed, r.to_visit, r.new_urls, steps + 1, outcomes,
                                       Append(log, entry)) :
                         r \in {ExtractLinks(seed, current, Page(site, current),
                                             new_urls, rest)}})
             ELSE CrawlLoop_nocap(seed, rest, new_urls, steps + 1, outcomes,
                                  Append(log, entry))

\* lines 91-108: the while loop; outcomes[k] is the outcome of the k-th fetch
\* and log lists the requests made so far.
RECURSIVE CrawlLoop(_, _, _, _, _, _)
CrawlLoop(seed, to_visit, new_urls, steps, outcomes, log) ==
    IF to_visit = << >> \/ steps >= StepBudget \/ Len(new_urls) >= MaxUrls
    THEN LoopResult(new_urls, steps, to_visit, log)
    ELSE LET current == Head(to_visit)
             rest == Tail(to_visit)
             entry == [url |-> current, recorded |-> Len(new_urls)]
         IN  IF outcomes[steps + 1] = "ok"
             THEN The({CrawlLoop(seed, r.to_visit, r.new_urls, steps + 1, outcomes,
                                 Append(log, entry)) :
                         r \in {ExtractLinks(seed, current, Page(site, current),
                                             new_urls, rest)}})
             ELSE CrawlLoop(seed, rest, new_urls, steps + 1, outcomes,
                            Append(log, entry))

\* line 89, list(visited): a Python set is listed in an order the program does
\* not control.  Two of the possible orders are explored: the stored order and
\* its reverse.
Orders(urls) == {urls, Reverse(urls)}

\* a mutant of StartList: the step starts from an empty list
StartList_empty(urls) == {<< >>}

\* lines 84 and 89: new_urls = list(set(urls[:100]))
StartList(urls) == Orders(Take(urls, MaxUrls))

\* a mutant of Frontier: the seed is put on the frontier at every step
Frontier_always(seed, visited) == << seed >>

\* a mutant of Frontier: the test of line 86 inverted
Frontier_inverted(seed, visited) == IF visited # << >> THEN << seed >> ELSE << >>

\* lines 85-87
Frontier(seed, visited) == IF visited = << >> THEN << seed >> ELSE << >>

\* lines 83-108 for one choice of list order and of fetch outcomes
CrawlStep(doc, start, outcomes) ==
    CrawlLoop(doc.seed_url, Frontier(doc.seed_url, start), start, 0, outcomes, << >>)

\* line 109
Progress(new_urls) == Min(100, Len(new_urls))

\* a mutant of StatusOf: never complete
StatusOf_inprogress(progress) == "in-progress"

\* line 115
StatusOf(progress) == IF progress >= 100 THEN "complete" ELSE "in-progress"

\* a mutant of CrawlUpdate: total_found is left as it was
CrawlUpdate_nototal(doc, new_urls) ==
    [doc EXCEPT !.urls = new_urls,
                !.progress = Progress(new_urls),
                !.status = StatusOf(Progress(new_urls))]

\* a mutant of CrawlUpdate: a step that found nothing marks the task as failed
CrawlUpdate_error(doc, new_urls) ==
    [doc EXCEPT !.urls = new_urls,
                !.total_found = Len(new_urls),
                !.progress = Progress(new_urls),
                !.status = IF new_urls = << >> THEN "error"
                           ELSE StatusOf(Progress(new_urls))]

\* lines 112-116: the fields update_one sets
CrawlUpdate(doc, new_urls) ==
    [doc EXCEPT !.urls = new_urls,
                !.total_found = Len(new_urls),
                !.progress = Progress(new_urls),
                !.status = StatusOf(Progress(new_urls))]

----------------------------------------------------------------------------
(* run_basic_seo_checks, lines 191-237.  Analysis(url) is what the parse   *)
(* of the page at url finds: the title and meta description (None when     *)
(* absent or empty), whether there is an <h1>, the number of <img>, the    *)
(* number of those without alt, and the number of words.                   *)

Analysis(url) ==
    LET n == url.path
        missing == (n % 4) * 6
    IN  [title |-> IF n % 2 = 1 THEN Some("title") ELSE None,
         meta_desc |-> IF n % 3 = 1 THEN Some("description") ELSE None,
         h1 |-> n % 4 # 2,
         image_count |-> missing + (n % 2),
         imgs_without_alt |-> missing,
         word_count |-> IF n % 2 = 1 THEN 300 ELSE 50]

\* "not x" for an Optional[str]: None or the empty string
Not(x) == x = None \/ x = Some("")

\* a mutant of Score: the deduction for images without alt is not capped
Score_uncapped(a) ==
    LET deductions ==
            (IF Not(a.title) THEN 20 ELSE 0)
          + (IF Not(a.meta_desc) THEN 15 ELSE 0)
          + (IF ~a.h1 THEN 10 ELSE 0)
          + a.imgs_without_alt
          + (IF a.word_count < MinWords THEN 10 ELSE 0)
    IN  Max(0, FullScore - deductions)

\* lines 208-220
Score(a) ==
    LET deductions ==
            (IF Not(a.title) THEN 20 ELSE 0)
          + (IF Not(a.meta_desc) THEN 15 ELSE 0)
          + (IF ~a.h1 THEN 10 ELSE 0)
          + (IF a.imgs_without_alt > 0 THEN Min(15, a.imgs_without_alt) ELSE 0)
          + (IF a.word_count < MinWords THEN 10 ELSE 0)
    IN  Max(0, FullScore - deductions)

\* lines 229-235
Recommendations(a) ==
       (IF ~Not(a.title) THEN << >>
        ELSE << "Add a descriptive, keyword-rich <title> tag (50-60 chars)" >>)
    \o (IF ~Not(a.meta_desc) THEN << >>
        ELSE << "Provide a compelling meta description (~155 chars)" >>)
    \o (IF a.h1 THEN << >>
        ELSE << "Include a single clear H1 headline on the page" >>)
    \o (IF a.imgs_without_alt = 0 THEN << >>
        ELSE << "Add alt text to images for accessibility and SEO" >>)
    \o (IF a.word_count >= MinWords THEN << >>
        ELSE << "Increase on-page copy to at least 200-500 words" >>)

\* lines 222-236
Report(a) ==
    [title |-> a.title,
     meta_description |-> a.meta_desc,
     has_h1 |-> a.h1,
     image_count |-> a.image_count,
     images_missing_alt |-> a.imgs_without_alt,
     word_count |-> a.word_count,
     recommendations |-> Recommendations(a)]

\* lines 208-237: the score and the report for what the parse found
Checks(a) == [score |-> Score(a), report |-> Report(a)]

\* lines 191-237, when requests.get does not raise
run_basic_seo_checks(url) == Checks(Analysis(url))

\* The pages on which the checks are run on their own: every combination of
\* a title (absent, empty once stripped, present), a meta description, an
\* <h1>, up to MaxMissingAlt images without alt among up to one more image,
\* and a word count on either side of MinWords.
MaxMissingAlt == 17
WordCounts == {0, 50, MinWords - 1, MinWords, 300}
CheckInputs ==
    {[title |-> t, meta_desc |-> m, h1 |-> h, image_count |-> k + x,
      imgs_without_alt |-> k, word_count |-> w] :
        t \in {None, Some(""), Some("Title")}, m \in {None, Some("About")},
        h \in BOOLEAN, k \in 0..MaxMissingAlt, x \in 0..1, w \in WordCounts}

\* str(e) of the exception requests.get raises for url: a text whose length
\* depends on the URL, shorter or longer than the cut
ShortErr == 40
LongErr == 150
ErrText(url) ==
    [i \in 1..(IF url.path % 2 = 0 THEN ShortErr ELSE LongErr) |-> i % 10]

\* outcome of run_basic_seo_checks inside audit_list
AuditOutcomes == IF env = "up" THEN {"ok"} ELSE {"ok", "raise"}

----------------------------------------------------------------------------
(* audit_list, lines 152-168                                               *)

Terminal(t) == t.status \in {"complete", "error"}

\* line 166: str(e)[:120]
Truncate(msg) == Take(msg, ErrCut)

\* lines 156-167: what the two update_one calls set on the stored document t
AuditOne(t, outcome) ==
    IF outcome = "ok"
    THEN [t EXCEPT !.status = "complete",
                   !.score = Some(run_basic_seo_checks(t.url).score),
                   !.report = Some(run_basic_seo_checks(t.url).report)]
    ELSE [t EXCEPT !.status = "error",
                   !.error = Some(Truncate(ErrText(t.url)))]

\* lines 152-154: the ids of the tasks of the slice that the snapshot shows
\* as not terminal, in list order
Todo(tasks) ==
    LET slice == Take(tasks, AuditBatch)
        keep(t) == ~Terminal(t)
        kept == SelectSeq(slice, keep)
    IN  [i \in 1..Len(kept) |-> kept[i].id]

\* The loops below walk a list by position, and bind each intermediate
\* collection as a value (the element of a one-element set) before going on.

\* a mutant of RunBatchFrom: the first failing audit ends the batch
RECURSIVE RunBatchFrom_abort(_, _, _, _)
RunBatchFrom_abort(docs, todo, outcomes, k) ==
    IF k > Len(todo) THEN docs
    ELSE The({IF outcomes[k] = "raise" THEN next
              ELSE RunBatchFrom_abort(next, todo, outcomes, k + 1) :
                next \in {[docs EXCEPT ![todo[k]] = AuditOne(docs[todo[k]], outcomes[k])]}})

\* lines 152-168: the loop from the k-th task of todo on, applied to the
\* stored collection docs; an AuditTask's id is its position in the collection
RECURSIVE RunBatchFrom(_, _, _, _)
RunBatchFrom(docs, todo, outcomes, k) ==
    IF k > Len(todo) THEN docs
    ELSE The({RunBatchFrom(next, todo, outcomes, k + 1) :
                next \in {[docs EXCEPT ![todo[k]] = AuditOne(docs[todo[k]], outcomes[k])]}})

\* lines 152-168
RunBatch(docs, todo, outcomes) == RunBatchFrom(docs, todo, outcomes, 1)

----------------------------------------------------------------------------
(* The document store                                                      *)

\* schemas.py:12-20, CrawlTask(seed_url=url) as create_document stores it
NewCrawlTask(id, url) ==
    [id |-> id, seed_url |-> url, status |-> "pending", total_found |-> 0,
     progress |-> 0, urls |-> << >>, error |-> None]

\* schemas.py:23-31, AuditTask(crawl_id=task_id, url=u) as create_document stores it
NewAuditTask(id, crawl_id, url) ==
    [id |-> id, crawl_id |-> crawl_id, url |-> url, status |-> "pending",
     score |-> None, report |-> None, error |-> None]

\* get_documents("audittask", {"crawl_id": task_id})
TasksOf(docs, task_id) ==
    LET mine(t) == t.crawl_id = task_id IN SelectSeq(docs, mine)

CrawlIds == 1..Len(crawltask)

\* An id sent by a client is the position of a document, the position after
\* the last (a well-formed id that no document has), or Malformed, a text
\* that bson.ObjectId rejects.
Malformed == 0
IdArgs(docs) == {Malformed} \cup (1..(Len(docs) + 1))

\* lines 71-78: get_documents("crawltask", {"_id": ...}), by either form of the id
Lookup(docs, task_id) ==
    LET mine(d) == d.id = task_id IN SelectSeq(docs, mine)

\* a mutant of find_one: an id that matches nothing yields the first document
find_one_first(docs, audit_id) ==
    IF audit_id \in 1..Len(docs) THEN Some(docs[audit_id])
    ELSE IF docs # << >> THEN Some(docs[1]) ELSE None

\* line 180: db["audittask"].find_one({"_id": ObjectId(audit_id)})
find_one(docs, audit_id) ==
    IF audit_id \in 1..Len(docs) THEN Some(docs[audit_id]) ELSE None

----------------------------------------------------------------------------
(* State                                                                   *)

\* task_id: the request's parameter; new_urls: the list the crawl step built;
\* fetched: the URLs it requested; nfail: how many of those requests did not
\* answer 200; recorded: for each request the number of URLs recorded when it
\* was made; steps, left: the value of steps and the length of to_visit at
\* the end of the loop; todo: the tasks audit_list is about to audit
NoLocal ==
    [task_id |-> 0, new_urls |-> << >>, fetched |-> << >>, nfail |-> 0,
     recorded |-> << >>, steps |-> 0, left |-> 0, todo |-> << >>]

NoCreated ==
    [n |-> 0, crawl_id |-> 0, disc |-> << >>, failed |-> {},
     created |-> << >>, count |-> 0]

\* endpoint: the handler that answered; id: the task or audit id the request
\* named (0 for crawl/start, which names none); code: the HTTP status;
\* body: the document returned, None with a failure
NoResponse == [endpoint |-> "", id |-> 0, code |-> 0, body |-> None]

\* the page of run_basic_seo_checks when no stand-alone run is explored
NoChecks ==
    [title |-> None, meta_desc |-> None, h1 |-> FALSE, image_count |-> 0,
     imgs_without_alt |-> 0, word_count |-> 0]

\* Requests that are refused (400, 404) and audit/report requests are
\* explored on this site.
Probed == {"deep"}

\* The combinations of site, environment and overlap explored.  Overlapping
\* requests are explored on the site with one link.
Configs ==
    {c \in [site : Sites, env : {"up", "flaky"}, overlap : BOOLEAN] :
        c.overlap => c.site = "single"}

Init ==
    /\ \E c \in Configs : site = c.site /\ env = c.env /\ overlap = c.overlap
    /\ crawltask = << >>
    /\ audittask = << >>
    /\ pc = [p \in Pollers |-> "idle"]
    /\ local = [p \in Pollers |-> NoLocal]
    /\ discovered = << >>
    /\ lastCreated = NoCreated
    /\ response = NoResponse
    /\ checks = NoChecks
    /\ scored = None

\* a request of poller p may start
CanStart(p) ==
    /\ pc[p] = "idle"
    /\ overlap \/ p = Owner

Return(p) ==
    /\ pc' = [pc EXCEPT ![p] = "idle"]
    /\ local' = [local EXCEPT ![p] = NoLocal]

----------------------------------------------------------------------------
(* POST /api/crawl/start, lines 56-65                                      *)

\* the url "" as urlparse splits it
EmptyUrl == Href("", "", NoPath, "")

\* line 58: not payload.url
Missing(url) == url = EmptyUrl

\* lines 58-59: the url is empty, 400
StartCrawlRejected(p) ==
    /\ CanStart(p) /\ p = Owner
    /\ site \in Probed
    /\ \E url \in {EmptyUrl} :
         /\ Missing(url)
         /\ response' = [endpoint |-> "crawl_start", id |-> 0, code |-> 400, body |-> None]
    /\ UNCHANGED <<checks, scored, site, env, overlap, crawltask, audittask, pc, local,
                   discovered, lastCreated>>

\* lines 58-65: the url is not empty
StartCrawl(p) ==
    /\ CanStart(p)
    /\ ~Missing(Seed)
    /\ crawltask = << >>
    /\ crawltask' = Append(crawltask, NewCrawlTask(Len(crawltask) + 1, Seed))
    /\ discovered' = Append(discovered, << >>)
    /\ UNCHANGED <<response, checks, scored, site, env, overlap, audittask, pc, local, lastCreated>>

----------------------------------------------------------------------------
(* crawl_status, lines 69-122, entered through /api/crawl/status,          *)
(* /api/crawl/urls (line 127) or /api/audit/start (line 134).              *)

\* start_audit requests begun so far
AuditStarts == lastCreated.n + Cardinality({q \in Pollers : pc[q] = "start_audit"})

\* lines 71-108: read the document and run the step on it
CrawlRead(p, endpoint) ==
    /\ CanStart(p)
    /\ endpoint # "crawl_status" => p = Owner
    /\ endpoint = "start_audit" => AuditStarts < MaxAuditStarts
    /\ \E task_id \in IdArgs(crawltask) :
         /\ Lookup(crawltask, task_id) # << >>
         /\ LET doc == Lookup(crawltask, task_id)[1]
            IN  \E start \in StartList(doc.urls) :
                  \E outcomes \in [1..StepBudget -> FetchOutcomes] :
                    LET r == CrawlStep(doc, start, outcomes)
                    IN  local' = [local EXCEPT ![p] =
                             [task_id |-> doc.id,
                              new_urls |-> r.new_urls,
                              fetched |-> r.fetched,
                              nfail |-> Cardinality({k \in 1..Len(r.fetched) :
                                                        outcomes[k] # "ok"}),
                              recorded |-> r.recorded,
                              steps |-> r.steps,
                              left |-> r.left,
                              todo |-> << >>]]
    /\ pc' = [pc EXCEPT ![p] = endpoint]
    /\ UNCHANGED <<response, checks, scored, site, env, overlap, crawltask, audittask, discovered, lastCreated>>

\* lines 71-80 and, for crawl_urls and start_audit, lines 127 and 134: no
\* document has the id, 404; the exception leaves the calling handler too
CrawlNotFound(p, endpoint) ==
    /\ CanStart(p) /\ p = Owner
    /\ site \in Probed
    /\ \E task_id \in IdArgs(crawltask) :
         /\ Lookup(crawltask, task_id) = << >>
         /\ response' = [endpoint |-> endpoint, id |-> task_id, code |-> 404, body |-> None]
    /\ UNCHANGED <<checks, scored, site, env, overlap, crawltask, audittask, pc, local,
                   discovered, lastCreated>>

\* update_one answers, or raises and is swallowed (lines 111-118)
WriteOutcomes == IF env = "up" THEN {TRUE} ELSE {TRUE, FALSE}

\* URLs of s that discovered does not list yet, appended to it
Discover(d, s) ==
    IF Range(s) \subseteq Range(d) THEN d
    ELSE LET new(u) == ~InSeq(u, d) IN d \o SelectSeq(s, new)

\* lines 109-120: write the step's result
CrawlWrite(p) ==
    LET id == local[p].task_id
    IN  \E ok \in WriteOutcomes :
          /\ crawltask' = IF ok
                          THEN [crawltask EXCEPT ![id] = CrawlUpdate(@, local[p].new_urls)]
                          ELSE crawltask
          /\ discovered' = IF ok
                           THEN [discovered EXCEPT ![id] = Discover(@, local[p].new_urls)]
                           ELSE discovered

\* GET /api/crawl/status: lines 109-122
CrawlStatusReturn(p) ==
    /\ pc[p] = "crawl_status"
    /\ CrawlWrite(p)
    /\ Return(p)
    /\ UNCHANGED <<response, checks, scored, site, env, overlap, audittask, lastCreated>>

\* GET /api/crawl/urls: lines 125-128
CrawlUrlsReturn(p) ==
    /\ pc[p] = "crawl_urls"
    /\ CrawlWrite(p)
    /\ Return(p)
    /\ UNCHANGED <<response, checks, scored, site, env, overlap, audittask, lastCreated>>

----------------------------------------------------------------------------
(* POST /api/audit/start, lines 131-144                                    *)

\* positions of urls at which AuditTask(...) or create_document raises
\* (the positions explored are those that follow the first)
CreateFailures(urls) ==
    IF env = "up" THEN {{}}
    ELSE SUBSET ((2..(MaxCreateFail + 1)) \cap (1..Len(urls)))

\* line 135
Selected(urls) == Take(urls, AuditUrls)

\* lines 137-143: the loop from position k on; F are the failing positions
RECURSIVE CreateAll(_, _, _, _, _)
CreateAll(docs, task_id, urls, k, F) ==
    IF k > Len(urls) THEN docs
    ELSE IF k \in F THEN CreateAll(docs, task_id, urls, k + 1, F)
    ELSE The({CreateAll(next, task_id, urls, k + 1, F) :
                next \in {Append(docs, NewAuditTask(Len(docs) + 1, task_id, urls[k]))}})

StartAuditCreate(p) ==
    /\ pc[p] = "start_audit"
    /\ CrawlWrite(p)
    /\ LET id == local[p].task_id
           latest == crawltask'[id]
           urls == Selected(latest.urls)
       IN  \E F \in CreateFailures(urls) :
             /\ audittask' = CreateAll(audittask, id, urls, 1, F)
             /\ lastCreated' =
                    [n |-> lastCreated.n + 1,
                     crawl_id |-> id,
                     disc |-> discovered'[id],
                     failed |-> {urls[k] : k \in F},
                     created |-> [i \in 1..(Len(audittask') - Len(audittask)) |->
                                     audittask'[Len(audittask) + i]],
                     count |-> Len(urls) - Cardinality(F)]
    /\ Return(p)
    /\ UNCHANGED <<response, checks, scored, site, env, overlap>>

----------------------------------------------------------------------------
(* GET /api/audit/list, lines 147-173                                      *)

\* line 149: the snapshot of the task list, and which of its tasks the loop
\* of lines 152-154 will handle
AuditListRead(p) ==
    /\ CanStart(p)
    /\ \E task_id \in CrawlIds :
         local' = [local EXCEPT ![p] =
                     [NoLocal EXCEPT !.task_id = task_id,
                                     !.todo = Todo(TasksOf(audittask, task_id))]]
    /\ pc' = [pc EXCEPT ![p] = "audit_list"]
    /\ UNCHANGED <<response, checks, scored, site, env, overlap, crawltask, audittask, discovered, lastCreated>>

\* lines 152-173: audit every task of the snapshot's slice and store the outcome
AuditListWrite(p) ==
    /\ pc[p] = "audit_list"
    /\ \E outcomes \in [1..Len(local[p].todo) -> AuditOutcomes] :
         audittask' = RunBatch(audittask, local[p].todo, outcomes)
    /\ Return(p)
    /\ UNCHANGED <<response, checks, scored, site, env, overlap, crawltask, discovered, lastCreated>>

----------------------------------------------------------------------------
(* GET /api/audit/report, lines 176-186                                    *)

\* find_one answers, or the store raises (line 185 turns that into 404)
FindOutcomes == IF env = "up" THEN {"ok"} ELSE {"ok", "raise"}

\* lines 179-186: ObjectId(audit_id) raises on a malformed id, find_one
\* returns None for an unknown one, and both end as 404
audit_report(docs, audit_id, outcome) ==
    LET t == IF audit_id = Malformed \/ outcome = "raise" THEN None
             ELSE find_one(docs, audit_id)
    IN  IF t = None
        THEN [endpoint |-> "audit_report", id |-> audit_id, code |-> 404, body |-> None]
        ELSE [endpoint |-> "audit_report", id |-> audit_id, code |-> 200, body |-> t]

AuditReport(p) ==
    /\ CanStart(p) /\ p = Owner
    /\ site \in Probed
    /\ \E audit_id \in IdArgs(audittask) :
         \E outcome \in FindOutcomes :
           response' = audit_report(audittask, audit_id, outcome)
    /\ UNCHANGED <<checks, scored, site, env, overlap, crawltask, audittask, pc, local,
                   discovered, lastCreated>>

----------------------------------------------------------------------------

Next ==
    \E p \in Pollers :
       \/ p = Owner /\ StartCrawl(p)
       \/ StartCrawlRejected(p)
       \/ CrawlNotFound(p, "crawl_status")
       \/ CrawlNotFound(p, "crawl_urls")
       \/ CrawlNotFound(p, "start_audit")
       \/ AuditReport(p)
       \/ CrawlRead(p, "crawl_status")
       \/ CrawlRead(p, "crawl_urls")
       \/ CrawlRead(p, "start_audit")
       \/ CrawlStatusReturn(p)
       \/ CrawlUrlsReturn(p)
       \/ StartAuditCreate(p)
       \/ AuditListRead(p)
       \/ AuditListWrite(p)

Spec == Init /\ [][Next]_vars

\* run_basic_seo_checks on its own: a page is drawn and the checks are run on
\* it once; the store stays empty.
ScoreInit ==
    /\ site = "single" /\ env = "up" /\ overlap = FALSE
    /\ crawltask = << >>
    /\ audittask = << >>
    /\ pc = [p \in Pollers |-> "idle"]
    /\ local = [p \in Pollers |-> NoLocal]
    /\ discovered = << >>
    /\ lastCreated = NoCreated
    /\ response = NoResponse
    /\ checks \in CheckInputs
    /\ scored = None

RunChecks ==
    /\ scored = None
    /\ scored' = Some(Checks(checks))
    /\ UNCHANGED <<response, checks, site, env, overlap, crawltask, audittask, pc, local,
                   discovered, lastCreated>>

ScoreSpec == ScoreInit /\ [][RunChecks]_vars

\* One client polls crawl/status and audit/list again and again, every request
\* it makes is answered, and every fetch and store write succeeds.
FairInit == Init /\ env = "up" /\ ~overlap

FairSpec ==
    /\ FairInit
    /\ [][Next]_vars
    /\ WF_vars(StartCrawl(Owner))
    /\ SF_vars(CrawlRead(Owner, "crawl_status"))
    /\ SF_vars(AuditListRead(Owner))
    /\ \A p \in Pollers :
          /\ WF_vars(CrawlStatusReturn(p))
          /\ WF_vars(CrawlUrlsReturn(p))
          /\ WF_vars(StartAuditCreate(p))
          /\ WF_vars(AuditListWrite(p))

----------------------------------------------------------------------------
(* Properties                                                              *)

HasTask == crawltask # << >>
Task == crawltask[1]

\* C1: after any sequence of crawl steps, whichever endpoint triggered them,
\* the stored urls list holds no URL twice and at most 100 URLs, however many
\* links the fetched pages contain.
C1_NoDupWithinCap ==
    \A i \in 1..Len(crawltask) :
        NoDup(crawltask[i].urls) /\ Len(crawltask[i].urls) <= 100

\* a page with more links than the cap has been crawled and the list is full
C1_Witness ==
    /\ HasTask
    /\ Len(Page(site, Task.seed_url)) > 100
    /\ Len(Task.urls) = 100

\* The URLs the links of page u resolve to.
LinkTargets(s, u) ==
    {The(normalize_url(u, h)) : h \in {x \in Range(Page(s, u)) : normalize_url(u, x) # None}}

\* Same scheme, host and port.
Internal(seed, u) == u.scheme = seed.scheme /\ u.netloc = seed.netloc

\* The internal URLs that links lead to from the pages in S or from the seed page.
RECURSIVE ReachableFrom(_, _, _)
ReachableFrom(s, seed, S) ==
    The({IF next = S THEN S ELSE ReachableFrom(s, seed, next) :
           next \in {S \cup UNION {{v \in LinkTargets(s, u) : Internal(seed, v)} :
                                     u \in S \cup {seed}}}})

Reachable(s) == ReachableFrom(s, Seed, {})

\* Every link of every page reached is an internal link.
SameOriginSite(s) ==
    \A u \in Reachable(s) \cup {Seed} :
        \A h \in Range(Page(s, u)) :
            normalize_url(u, h) # None /\ Internal(Seed, The(normalize_url(u, h)))

C2_Premise == HasTask /\ SameOriginSite(site) /\ Cardinality(Reachable(site)) < 100

\* C2 as stated: on a same-origin site with N < 100 distinct internal links
\* reachable from the seed and fetches that succeed, repeated polling of
\* crawl/status eventually stores total_found = N.
C2_ReachesAllReachable ==
    C2_Premise ~> (HasTask /\ Task.total_found = Cardinality(Reachable(site)))

\* The internal links of the seed page and of the page of the first of them.
FirstTwoPages(s) ==
    LET onSeed == {v \in LinkTargets(s, Seed) : Internal(Seed, v)}
        hrefs == Page(s, Seed)
        first == The(normalize_url(Seed, hrefs[1]))
    IN  IF hrefs = << >> THEN {}
        ELSE onSeed \cup {v \in LinkTargets(s, first) : Internal(Seed, v)}

\* C2 amended: under the same premise, repeated polling eventually stores
\* total_found = the number of distinct internal links found on the seed page
\* and on the page of the first link of the seed page, the two pages one crawl
\* step fetches; links that only other pages carry are never found.
C2_ReachesFirstTwoPages ==
    C2_Premise ~> (HasTask /\ Task.total_found = Cardinality(FirstTwoPages(site)))

\* a site where pages beyond the first two carry further links has been
\* crawled to the end of what a step finds
C2_Witness ==
    /\ C2_Premise
    /\ Cardinality(FirstTwoPages(site)) < Cardinality(Reachable(site))
    /\ Task.total_found = Cardinality(FirstTwoPages(site))
    /\ Task.urls # discovered[1]

AuditIds == 1..Len(audittask)

\* C3: once an AuditTask is complete or error, no later audit/list changes
\* its status, score, report or error, also when a second poller read the
\* task list before the first poller stored its outcome.
C3_TerminalImmutable ==
    [][\A i \in AuditIds : Terminal(audittask[i]) => audittask'[i] = audittask[i]]_vars

\* C4: in every stored state of every AuditTask, score and report are set iff
\* the status is complete, error is set iff the status is error, and a
\* terminal task never has both score/report and error.
C4_FieldsFollowStatus ==
    \A i \in AuditIds :
        LET t == audittask[i]
        IN  /\ (t.score # None /\ t.report # None) <=> t.status = "complete"
            /\ (t.score # None) <=> (t.report # None)
            /\ (t.error # None) <=> t.status = "error"
            /\ Terminal(t) => ~(t.score # None /\ t.error # None)

\* C5: every stored URL has the scheme, host and port of the task's seed URL.
C5_SameSchemeHostPort ==
    \A i \in 1..Len(crawltask) :
        \A u \in Range(crawltask[i].urls) :
            /\ u.scheme = crawltask[i].seed_url.scheme
            /\ u.netloc = crawltask[i].seed_url.netloc

\* C6: when the crawl steps on a task do not overlap, the length of urls and
\* progress never decrease from one stored state to the next, and progress
\* stays within 0..100.
C6_Monotone ==
    [][~overlap =>
         \A i \in 1..Len(crawltask) :
            /\ Len(crawltask'[i].urls) >= Len(crawltask[i].urls)
            /\ crawltask'[i].progress >= crawltask[i].progress
            /\ crawltask'[i].progress \in 0..100]_vars

\* a later step has rewritten a non-empty list (in another order) without
\* shortening it
C6_Witness ==
    /\ ~overlap
    /\ HasTask
    /\ Task.urls # << >>
    /\ Task.urls # discovered[1]
    /\ Len(Task.urls) = Len(discovered[1])
    /\ Task.progress = Len(Task.urls)

\* C7: progress = 100 implies status = complete in every stored state, and a
\* task that a step has written is complete when its progress is 100 and
\* in-progress otherwise.
C7_CompleteAtHundred ==
    \A i \in 1..Len(crawltask) :
        LET t == crawltask[i]
        IN  /\ t.progress = 100 => t.status = "complete"
            /\ t.status \in {"pending", "in-progress", "complete"}
            /\ t.status = "complete" => t.progress = 100
            /\ t.status = "pending" => t.progress = 0 /\ t.urls = << >>

\* a step has written a task that holds 100 URLs
C7_Witness ==
    HasTask /\ Task.progress = 100 /\ Task.status = "complete"

\* C8: no crawl step sets status to error or writes the error field, whatever
\* fetches fail; a step whose every fetch failed has found no URL.
C8_NeverError ==
    /\ \A i \in 1..Len(crawltask) :
          /\ crawltask[i].status # "error"
          /\ crawltask[i].error = None
          /\ crawltask[i].urls = << >> /\ crawltask[i].total_found = 0
                => crawltask[i].status \in {"pending", "in-progress"}
    /\ \A p \in Pollers :
          pc[p] \in {"crawl_status", "crawl_urls", "start_audit"}
          /\ local[p].fetched # << >>
          /\ local[p].nfail = Len(local[p].fetched)
             => local[p].new_urls = << >>

\* a step in which the fetch of the seed failed has been stored
C8_Witness ==
    /\ env = "flaky"
    /\ HasTask
    /\ Task.status = "in-progress"
    /\ Task.urls = << >>

\* C9: when an audit of an audit/list batch fails, that task becomes error
\* with a message of 1 to 120 characters and no score or report; the tasks
\* outside the batch and the CrawlTask are left as they were, and every other
\* task of the batch is audited all the same.
C9_FailureIsolated ==
    [][\A p \in Pollers :
         pc[p] = "audit_list" /\ pc'[p] = "idle" =>
           /\ crawltask' = crawltask
           /\ Len(audittask') = Len(audittask)
           /\ \A i \in AuditIds :
                LET old == audittask[i]
                    new == audittask'[i]
                IN  IF i \notin Range(local[p].todo) THEN new = old
                    ELSE ~Terminal(old) =>
                           /\ Terminal(new)
                           /\ new.url = old.url /\ new.crawl_id = old.crawl_id
                           /\ new.status = "error" =>
                                 /\ new.error # None
                                 /\ Len(The(new.error)) \in 1..120
                                 /\ new.score = None /\ new.report = None
                           /\ new.status = "complete" =>
                                 /\ new.error = None
                                 /\ new.score # None /\ new.report # None]_vars

\* a batch in which an audit failed with a message longer than the cut, and
\* a later task of the same batch was audited with success
C9_Witness ==
    /\ ~overlap
    /\ \E i, j \in AuditIds :
          /\ i < j
          /\ audittask[i].status = "error"
          /\ audittask[i].error # None
          /\ Len(The(audittask[i].error)) = 120
          /\ audittask[j].status = "complete"

\* C10: audit/start creates one pending AuditTask for each of the first
\* min(20, number of URLs) URLs in the order in which the crawl discovered
\* them, skipping the URLs whose task cannot be created, and returns as count
\* the number of tasks created.
C10_FirstInDiscoveryOrder ==
    ~overlap /\ lastCreated.n > 0 =>
        LET first == Take(lastCreated.disc, 20)
            made(u) == u \notin lastCreated.failed
            want == SelectSeq(first, made)
        IN  /\ Len(lastCreated.created) = Len(want)
            /\ \A k \in 1..Len(want) :
                  /\ lastCreated.created[k].url = want[k]
                  /\ lastCreated.created[k].status = "pending"
            /\ lastCreated.count = Len(lastCreated.created)

\* C11: a request that fails (crawl/start with an empty url, 400; crawl/status,
\* crawl/urls and audit/start with an id that no CrawlTask has, 404;
\* audit/report with an unknown or malformed id, 404) creates and changes no
\* CrawlTask and no AuditTask; audit/report answers with the whole stored
\* AuditTask or with not-found, and changes nothing.
C11_FailureLeavesStore ==
    [][response' # response =>
         LET r == response'
         IN  /\ crawltask' = crawltask
             /\ audittask' = audittask
             /\ r.endpoint = "crawl_start" => r.code = 400 /\ r.body = None
             /\ r.endpoint \in {"crawl_status", "crawl_urls", "start_audit"} =>
                    r.code = 404 /\ r.body = None /\ r.id \notin CrawlIds
             /\ r.endpoint = "audit_report" =>
                    \/ r.code = 404 /\ r.body = None
                    \/ r.code = 200 /\ r.id \in AuditIds /\ r.body = Some(audittask[r.id])
             /\ r.endpoint = "audit_report" /\ r.id \notin AuditIds => r.code = 404]_vars

\* audit/start was refused for an unknown crawl id while the store held a
\* crawl task and audit tasks
C11_Witness ==
    /\ response.endpoint = "start_audit"
    /\ response.code = 404
    /\ HasTask
    /\ audittask # << >>

\* C12: for every combination of check outcomes the score is 100 minus 20
\* (no title), 15 (no meta description), 10 (no h1), min(15, k) (k images
\* without alt) and 10 (fewer than 200 words), clamped to 0..100, and
\* recommendations holds one entry per failed check in the order title, meta
\* description, h1, alt text, word count.
C12_ScoreAndRecommendations ==
    scored # None =>
        LET r == The(scored)
            k == checks.imgs_without_alt
            failed == << checks.title \in {None, Some("")},
                         checks.meta_desc = None,
                         ~checks.h1,
                         k > 0,
                         checks.word_count < 200 >>
            cost == << 20, 15, 10, IF k < 15 THEN k ELSE 15, 10 >>
            text == << "Add a descriptive, keyword-rich <title> tag (50-60 chars)",
                       "Provide a compelling meta description (~155 chars)",
                       "Include a single clear H1 headline on the page",
                       "Add alt text to images for accessibility and SEO",
                       "Increase on-page copy to at least 200-500 words" >>
            due(i) == IF failed[i] THEN cost[i] ELSE 0
            raw == 100 - due(1) - due(2) - due(3) - due(4) - due(5)
            fails(i) == failed[i]
            order == SelectSeq(<<1, 2, 3, 4, 5>>, fails)
        IN  /\ r.score = (IF raw < 0 THEN 0 ELSE IF raw > 100 THEN 100 ELSE raw)
            /\ r.score \in 0..100
            /\ r.report.recommendations = [i \in 1..Len(order) |-> text[order[i]]]

\* the page with no title, no meta description, no h1, 3 images all without
\* alt and 50 words has been scored 42 with 5 recommendations
C12_Witness ==
    /\ scored # None
    /\ checks.title = None /\ checks.meta_desc = None /\ ~checks.h1
    /\ checks.imgs_without_alt = 3 /\ checks.image_count = 3
    /\ checks.word_count = 50
    /\ The(scored).score = 42
    /\ Len(The(scored).report.recommendations) = 5

\* C13: every URL stored in urls is an absolute http or https URL without a
\* fragment; normalize_url gives no result for a link of another scheme
\* (javascript:, mailto:) and strips the fragment of the links it accepts, so
\* that links which differ only in their fragment are stored once.
C13_AbsoluteHttpNoFragment ==
    /\ \A i \in 1..Len(crawltask) :
          LET urls == crawltask[i].urls
          IN  /\ \A u \in Range(urls) :
                    /\ u.scheme \in {"http", "https"}
                    /\ u.netloc # "" /\ u.path # NoPath
                    /\ u.fragment = ""
              /\ Cardinality({<<u.scheme, u.netloc, u.path>> : u \in Range(urls)})
                    = Len(urls)
    /\ \A p \in Pollers : \A u \in Range(local[p].fetched) :
          \A h \in Range(Page(site, u)) :
             /\ h.scheme \notin {"", "http", "https"} => normalize_url(u, h) = None
             /\ normalize_url(u, h) # None => The(normalize_url(u, h)).fragment = ""

\* the page with /1, /2#top, /1#top, mailto:, javascript: and #top links has
\* been crawled: /1 and /2 are stored, /1 once
C13_Witness ==
    /\ site = "mixed"
    /\ HasTask
    /\ Url("https", "a.com", 1) \in Range(Task.urls)
    /\ Url("https", "a.com", 2) \in Range(Task.urls)
    /\ Seed \in Range(Task.urls)

\* C14: each audit/list call advances exactly min(5, number of non-terminal
\* AuditTasks of the crawl) tasks, the first ones in list order; tasks that
\* are already complete or error take none of the 5 places of the batch.
C14_AdvancesFiveNonTerminal ==
    [][\A p \in Pollers :
         ~overlap /\ pc[p] = "audit_list" /\ pc'[p] = "idle" =>
            LET mine == {i \in AuditIds : audittask[i].crawl_id = local[p].task_id}
                open == {i \in mine : ~Terminal(audittask[i])}
                advanced == {i \in open : Terminal(audittask'[i])}
            IN  /\ Cardinality(advanced) = Min(5, Cardinality(open))
                /\ \A i \in advanced : \A j \in open \ advanced : i < j]_vars

\* C15: for a crawl with any number of AuditTasks, repeated polling of
\* audit/list eventually brings every AuditTask of the crawl to complete or
\* error.
C15_AllEventuallyTerminal ==
    (audittask # << >>) ~> (\A i \in AuditIds : Terminal(audittask[i]))

\* C16: also when two pollers of the same CrawlTask interleave their
\* read-modify-write, with fetches of different outcomes, progress and the
\* length of the stored urls never decrease from one stored state to the next.
C16_MonotoneUnderRace ==
    [][\A i \in 1..Len(crawltask) :
          /\ Len(crawltask'[i].urls) >= Len(crawltask[i].urls)
          /\ crawltask'[i].progress >= crawltask[i].progress]_vars

CrawlEndpoints == {"crawl_status", "crawl_urls", "start_audit"}

\* C17: a crawl step starts with the frontier [seed] when the stored urls is
\* empty and with an empty frontier otherwise: a step on a task whose urls is
\* not empty fetches nothing and leaves the set of urls, total_found, progress
\* and status as they were; a step on a task whose urls is empty fetches the
\* seed, also when an earlier step already did.
C17_FrontierSeedOnlyWhenEmpty ==
    [][\A p \in Pollers :
         /\ pc[p] = "idle" /\ pc'[p] \in CrawlEndpoints =>
               LET doc == crawltask[local'[p].task_id]
                   l == local'[p]
               IN  /\ doc.urls = << >> =>
                         l.fetched # << >> /\ l.fetched[1] = doc.seed_url
                   /\ doc.urls # << >> =>
                         /\ l.fetched = << >>
                         /\ Range(l.new_urls) = Range(doc.urls)
                         /\ Len(l.new_urls) = Len(doc.urls)
         /\ ~overlap /\ pc[p] \in CrawlEndpoints /\ pc'[p] = "idle" =>
               LET old == crawltask[local[p].task_id]
                   new == crawltask'[local[p].task_id]
               IN  old.urls # << >> =>
                         /\ Range(new.urls) = Range(old.urls)
                         /\ new.total_found = old.total_found
                         /\ new.progress = old.progress
                         /\ new.status = old.status]_vars

\* a step on a task with stored URLs has fetched nothing and has stored the
\* same URLs in another order
C17_Witness ==
    /\ ~overlap
    /\ HasTask
    /\ Len(Task.urls) > 1
    /\ Task.urls = Reverse(discovered[1])
    /\ pc[Owner] = "crawl_status"
    /\ local[Owner].fetched = << >>
    /\ local[Owner].new_urls = discovered[1]

\* C18: a crawl step makes at most 2 fetches, one after the other; a fetch
\* that succeeds, one that answers non-200 and one that raises each use one
\* unit of the budget; a fetch is only made while fewer than 2 units are used
\* and fewer than 100 URLs are recorded, and the step ends when 2 units are
\* used, the frontier is empty or 100 URLs are recorded.
C18_StepBudget ==
    \A p \in Pollers :
        pc[p] \in CrawlEndpoints =>
            LET l == local[p]
            IN  /\ Len(l.fetched) <= 2
                /\ l.steps = Len(l.fetched)
                /\ l.nfail <= l.steps
                /\ \A k \in 1..Len(l.fetched) : k - 1 < 2 /\ l.recorded[k] < 100
                /\ l.steps = 2 \/ l.left = 0 \/ Len(l.new_urls) >= 100

\* a step has stopped after one fetch, with a frontier that is not empty,
\* because 100 URLs are recorded
C18_Witness ==
    \E p \in Pollers :
        /\ pc[p] \in CrawlEndpoints
        /\ local[p].steps = 1
        /\ local[p].left > 0
        /\ Len(local[p].new_urls) = 100

\* C19: in every stored state of a CrawlTask, from its creation on,
\* total_found is the number of entries of urls and progress is
\* min(100, total_found).
C19_CountsAgree ==
    \A i \in 1..Len(crawltask) :
        LET t == crawltask[i]
        IN  /\ t.total_found = Len(t.urls)
            /\ t.progress = (IF t.total_found > 100 THEN 100 ELSE t.total_found)

\* a step on a page with several links has been stored
C19_Witness ==
    /\ HasTask
    /\ Task.total_found = 5
    /\ Len(Task.urls) = 5
    /\ Task.progress = 5

====
